---- MODULE Spec2Model ----
(***************************************************************************)
(* Flask-Authorize, flask_authorize/plugin.py: the authorization decision  *)
(* (Authorizer.allowed and its helpers), the requirement cache filled by   *)
(* decoration (Authorizer.__call__) and the plugin setup (Authorize).      *)
(*                                                                         *)
(* Python values are modelled as records tagged by "kind":                 *)
(*   [kind |-> "noattr"]        hasattr(x, attr) is False                  *)
(*   [kind |-> "none"]          the attribute (or value) is None           *)
(*   [kind |-> "map", map |-> f]  a dict, f a function on its keys         *)
(*   [kind |-> "list", items |-> s]  a list                                *)
(*   [kind |-> "obj", ...]      an object; equal records are one object    *)
(***************************************************************************)
EXTENDS Integers, Sequences, FiniteSets, TLC

\* CURRENT_USER     the module global: "None", or the accessor installed
\* AUTHORIZE_CACHE  the module global: function name -> Authorizer
\* wrappers         per function, the `auth` each inner() closure holds
\* declared         per function, the authorizers that decorated it (history)
\* registered       per name, the authorizers registered under it (history)
\* setup            the last Authorize() / init_app() call, and whether it raised
\* call, result     the call or check under way and its outcome
VARIABLES CURRENT_USER, AUTHORIZE_CACHE, wrappers, declared, registered,
          setup, call, result

vars == <<CURRENT_USER, AUTHORIZE_CACHE, wrappers, declared, registered,
          setup, call, result>>

(***************************************************************************)
(* Bounds of the model.                                                    *)
(***************************************************************************)
MaxArgs == 2
MaxCreds == 2
MaxDecorations == 2

(***************************************************************************)
(* Python values.                                                          *)
(***************************************************************************)
NoAttr == [kind |-> "noattr"]
PyNone == [kind |-> "none"]
PyDict(f) == [kind |-> "map", map |-> f]
PyList(s) == [kind |-> "list", items |-> s]
EmptyDict == PyDict(<<>>)

Range(s) == {s[i] : i \in 1..Len(s)}

\* dict.get(key, default)
DictGet(d, key, default) == IF key \in DOMAIN d.map THEN d.map[key] ELSE default

SeqsUpTo(S, n) == UNION {[1..k -> S] : k \in 0..n}

(***************************************************************************)
(* Defaults of the permission model.                                       *)
(***************************************************************************)
\* default_allowances(): the AUTHORIZE_DEFAULT_ALLOWANCES init_app sets.
default_allowances == {"read", "update", "delete"}

\* table_key(obj.__class__): the lookup key of the object's type.
table_key(obj) == obj.key

(***************************************************************************)
(* Helpers.                                                                *)
(***************************************************************************)
has_permission(expected, actual) ==
    Cardinality(expected \cap actual) = Cardinality(expected)

\* `name` of a credential is role.name, or str(role) for a role without one.
user_has_role(user, roles) ==
    IF user.roles.kind = "noattr" THEN FALSE
    ELSE \E i \in 1..Len(user.roles.items) :
            user.roles.items[i].name \in Range(roles)

user_in_group(user, groups) ==
    IF user.groups.kind = "noattr" THEN FALSE
    ELSE \E i \in 1..Len(user.groups.items) :
            user.groups.items[i].name \in Range(groups)

\* "gather credentials to check": roles, then groups.
credentials(user) ==
    (IF user.roles.kind # "noattr" THEN user.roles.items ELSE <<>>)
    \o (IF user.groups.kind # "noattr" THEN user.groups.items ELSE <<>>)

user_is_restricted(user, operation, obj) ==
    LET key == table_key(obj)
        creds == credentials(user)
    IN  IF Len(creds) = 0 THEN FALSE
        ELSE \E i \in 1..Len(creds) :
                /\ creds[i].restrictions.kind = "map"
                /\ DictGet(creds[i].restrictions, key, {}) \cap operation # {}

\* Mutant: a credential without an entry for the key contributes nothing.
RECURSIVE gather_allowances_no_default(_, _, _, _, _)
gather_allowances_no_default(creds, i, allowances, key, operation) ==
    IF i > Len(creds)
    THEN Cardinality(allowances \cap operation) = Cardinality(operation)
    ELSE IF creds[i].allowances.kind = "noattr" THEN TRUE
    ELSE IF creds[i].allowances.kind = "none" THEN TRUE
    ELSE gather_allowances_no_default(creds, i + 1,
            allowances \cup DictGet(creds[i].allowances, key, {}),
            key, operation)

\* The loop of user_is_allowed over the credentials, from position i on, with
\* the allowances gathered so far.
RECURSIVE gather_allowances(_, _, _, _, _)
gather_allowances(creds, i, allowances, key, operation) ==
    IF i > Len(creds)
    THEN Cardinality(allowances \cap operation) = Cardinality(operation)
    ELSE IF creds[i].allowances.kind = "noattr" THEN TRUE
    ELSE IF creds[i].allowances.kind = "none" THEN TRUE
    ELSE gather_allowances(creds, i + 1,
            allowances \cup DictGet(creds[i].allowances, key, default_allowances),
            key, operation)

user_is_allowed(user, operation, obj) ==
    LET key == table_key(obj)
        creds == credentials(user)
    IN  IF Len(creds) = 0 THEN TRUE
        ELSE gather_allowances(creds, 1, {}, key, operation)

(***************************************************************************)
(* Authorizer: a requirement, the four lists set by Authorizer.__init__.   *)
(***************************************************************************)
\* _(arg) of __init__: None becomes [], a scalar becomes [arg], a list stays.
normalize(arg) ==
    IF arg.kind = "none" THEN <<>>
    ELSE IF arg.kind # "list" THEN <<arg.value>>
    ELSE arg.items

Scalar(v) == [kind |-> "scalar", value |-> v]

Authorizer(permission, has_role, in_group, model) ==
    [permission |-> normalize(permission), has_role |-> normalize(has_role),
     in_group |-> normalize(in_group), model |-> normalize(model)]

\* The user allowed() decides for: kwargs.get('user'), else CURRENT_USER(),
\* a function given as user is called. [kind |-> "raise"] when CURRENT_USER is
\* still None (calling None raises TypeError).
resolve_user(kwUser, accessor, accessorRet) ==
    IF kwUser.kind = "none"
    THEN IF accessor = "None" THEN [kind |-> "raise"] ELSE accessorRet
    ELSE IF kwUser.kind = "func" THEN kwUser.ret
    ELSE kwUser

\* The tier checks of allowed() on one argument: other, owner, group.
tier_checks(user, operation, arg) ==
    \/ has_permission(operation, DictGet(arg.permissions, "other", {}))
    \/ /\ arg.owner.kind # "noattr"
       /\ arg.owner = [kind |-> "obj", id |-> user.id]
       /\ has_permission(operation, DictGet(arg.permissions, "owner", {}))
    \/ /\ arg.group.kind # "noattr"
       /\ user.groups.kind # "noattr"
       /\ arg.group.obj \in Range(user.groups.items)
       /\ has_permission(operation, DictGet(arg.permissions, "group", {}))

\* Mutant: a restricted or disallowed argument is skipped like a tier miss.
RECURSIVE check_instances_skipping(_, _, _, _)
check_instances_skipping(user, operation, args, i) ==
    IF i > Len(args) THEN FALSE
    ELSE LET arg == args[i] IN
        IF arg.permissions.kind = "noattr"
        THEN check_instances_skipping(user, operation, args, i + 1)
        ELSE IF user_is_restricted(user, operation, arg)
        THEN check_instances_skipping(user, operation, args, i + 1)
        ELSE IF ~user_is_allowed(user, operation, arg)
        THEN check_instances_skipping(user, operation, args, i + 1)
        ELSE IF tier_checks(user, operation, arg) THEN TRUE
        ELSE check_instances_skipping(user, operation, args, i + 1)

\* Mutant: an argument without permissions ends the loop with a denial.
RECURSIVE check_instances_strict(_, _, _, _)
check_instances_strict(user, operation, args, i) ==
    IF i > Len(args) THEN FALSE
    ELSE LET arg == args[i] IN
        IF arg.permissions.kind = "noattr" THEN FALSE
        ELSE IF user_is_restricted(user, operation, arg) THEN FALSE
        ELSE IF ~user_is_allowed(user, operation, arg) THEN FALSE
        ELSE IF tier_checks(user, operation, arg) THEN TRUE
        ELSE check_instances_strict(user, operation, args, i + 1)

\* Mutant: a tier miss on one argument denies without looking at the next.
RECURSIVE check_instances_first_only(_, _, _, _)
check_instances_first_only(user, operation, args, i) ==
    IF i > Len(args) THEN FALSE
    ELSE LET arg == args[i] IN
        IF arg.permissions.kind = "noattr"
        THEN check_instances_first_only(user, operation, args, i + 1)
        ELSE IF user_is_restricted(user, operation, arg) THEN FALSE
        ELSE IF ~user_is_allowed(user, operation, arg) THEN FALSE
        ELSE tier_checks(user, operation, arg)

\* "check permissions on individual instances": the loop over args from
\* position i on.
RECURSIVE check_instances(_, _, _, _)
check_instances(user, operation, args, i) ==
    IF i > Len(args) THEN FALSE
    ELSE LET arg == args[i] IN
        IF arg.permissions.kind = "noattr"
        THEN check_instances(user, operation, args, i + 1)
        ELSE IF user_is_restricted(user, operation, arg) THEN FALSE
        ELSE IF ~user_is_allowed(user, operation, arg) THEN FALSE
        ELSE IF tier_checks(user, operation, arg) THEN TRUE
        ELSE check_instances(user, operation, args, i + 1)

\* Mutant: the anonymous check is missing; None goes on as a user without
\* roles or groups.
allowed_anonymous(self, args, kwUser, accessor, accessorRet) ==
    LET resolved == resolve_user(kwUser, accessor, accessorRet)
        user == IF resolved.kind = "none"
                THEN [kind |-> "obj", id |-> "None", roles |-> NoAttr,
                      groups |-> NoAttr]
                ELSE resolved
    IN
    IF user.kind = "raise" THEN "TypeError"
    ELSE IF Len(self.has_role) # 0 /\ user_has_role(user, self.has_role)
    THEN "allow"
    ELSE IF Len(self.in_group) # 0 /\ user_in_group(user, self.in_group)
    THEN "allow"
    ELSE IF Len(self.permission) = 0 THEN "deny"
    ELSE IF check_instances(user, Range(self.permission), args, 1)
    THEN "allow"
    ELSE "deny"

\* Mutant: the empty-permission return comes before the role and group checks.
allowed_permission_first(self, args, kwUser, accessor, accessorRet) ==
    LET user == resolve_user(kwUser, accessor, accessorRet) IN
    IF user.kind = "raise" THEN "TypeError"
    ELSE IF user.kind = "none" THEN "deny"
    ELSE IF Len(self.permission) = 0 THEN "deny"
    ELSE IF Len(self.has_role) # 0 /\ user_has_role(user, self.has_role)
    THEN "allow"
    ELSE IF Len(self.in_group) # 0 /\ user_in_group(user, self.in_group)
    THEN "allow"
    ELSE IF check_instances(user, Range(self.permission), args, 1)
    THEN "allow"
    ELSE "deny"

\* Authorizer.allowed(*args, user=kwUser): "allow" (True), "deny" (False) or
\* "TypeError".
allowed(self, args, kwUser, accessor, accessorRet) ==
    LET user == resolve_user(kwUser, accessor, accessorRet) IN
    IF user.kind = "raise" THEN "TypeError"
    ELSE IF user.kind = "none" THEN "deny"
    ELSE IF Len(self.has_role) # 0 /\ user_has_role(user, self.has_role)
    THEN "allow"
    ELSE IF Len(self.in_group) # 0 /\ user_in_group(user, self.in_group)
    THEN "allow"
    ELSE IF Len(self.permission) = 0 THEN "deny"
    ELSE IF check_instances(user, Range(self.permission), args, 1)
    THEN "allow"
    ELSE "deny"

(***************************************************************************)
(* Input domains.                                                          *)
(***************************************************************************)
Names == {"admin", "staff"}

Credential(name, restrictions, allowances) ==
    [name |-> name, restrictions |-> restrictions, allowances |-> allowances]

\* roles / groups of a user: the attribute is missing, or a list.
CredLists(C, n) == {NoAttr} \cup {PyList(s) : s \in SeqsUpTo(C, n)}

\* Users with at most n credentials drawn from C.
Users(C, n) ==
    {u \in [kind : {"obj"}, id : {"u1"}, roles : CredLists(C, n),
            groups : CredLists(C, n)] : Len(credentials(u)) <= n}

UserRef(id) == [kind |-> "obj", id |-> id]

\* The group attribute of a target: the group object g.
GroupRef(g) == [kind |-> "obj", obj |-> g]

Target(key, permissions, owner, group) ==
    [kind |-> "obj", key |-> key, permissions |-> permissions,
     owner |-> owner, group |-> group]

\* An argument without a `permissions` attribute (an id, a string, ...).
PlainValue == [kind |-> "value", permissions |-> NoAttr]

\* How the user reaches allowed(): user=u, user=<function returning u>, or no
\* user keyword and CURRENT_USER() returning u.
Resolutions(u) ==
    {<<u, PyNone>>, <<[kind |-> "func", ret |-> u], PyNone>>, <<PyNone, u>>}

\* Requirements: no permission, read, update or both; bypass role admin or
\* none; bypass group staff or none.
Requirements ==
    [permission : {<<>>, <<"read">>, <<"update">>, <<"read", "update">>},
     has_role : {<<>>, <<"admin">>}, in_group : {<<>>, <<"staff">>},
     model : {<<>>}]

(***************************************************************************)
(* State: the module globals, the decorated functions and the call made.   *)
(***************************************************************************)
\* Decorated functions; get_user and edit_user are two functions that share a
\* __name__ (defined in different modules).
Funcs == {"get_user", "edit_user", "get_post"}
FuncName(f) == IF f = "get_post" THEN "post" ELSE "user"
FuncNames == {FuncName(f) : f \in Funcs}

NoEntry == [kind |-> "noattr"]
NoCall == [op |-> "none"]

GlobalsInit ==
    /\ AUTHORIZE_CACHE = [n \in FuncNames |-> NoEntry]
    /\ wrappers = [f \in Funcs |-> <<>>]
    /\ declared = [f \in Funcs |-> <<>>]
    /\ registered = [n \in FuncNames |-> <<>>]
    /\ setup = NoCall

(***************************************************************************)
(* The program: plugin setup, decoration, calls of decorated functions and *)
(* direct checks.                                                          *)
(***************************************************************************)
\* The authorizers the Authorize properties and methods build: read,
\* create(Post), has_role('admin'), in_group('staff').
DeclaredAuthorizers ==
    {Authorizer(Scalar("read"), PyNone, PyNone, PyNone),
     Authorizer(Scalar("create"), PyNone, PyNone, Scalar("Post")),
     Authorizer(PyNone, Scalar("admin"), PyNone, PyNone),
     Authorizer(PyNone, PyNone, Scalar("staff"), PyNone)}

\* Users of the program: one with the role admin, one without credentials.
Admin ==
    [kind |-> "obj", id |-> "u1",
     roles |-> PyList(<<Credential("admin", NoAttr, NoAttr)>>), groups |-> NoAttr]
Guest == [kind |-> "obj", id |-> "u2", roles |-> NoAttr, groups |-> NoAttr]

\* Targets of the program: one anyone may read, one nobody may.
Readable == Target("K1", PyDict([t \in {"other"} |-> {"read"}]), NoAttr, NoAttr)
Private == Target("K1", EmptyDict, NoAttr, NoAttr)

\* The positional and keyword argument values of a call.
CallArguments ==
    {<<a, <<>>>> : a \in SeqsUpTo({Readable, Private}, 1)}
    \cup {<<<<>>, <<Readable>>>>}

\* init_app's "set current user function": the error raised and the value of
\* CURRENT_USER afterwards, for current_user None ("None"), a non-callable
\* ("noncallable") or a function ("flask_login", "custom").
set_current_user(current_user, old) ==
    IF current_user = "None" THEN [raised |-> FALSE, value |-> old]
    ELSE IF current_user = "noncallable" THEN [raised |-> TRUE, value |-> old]
    ELSE [raised |-> FALSE, value |-> current_user]

\* Authorize(app, current_user): current_user defaults to
\* flask_login_current_user; init_app runs only when an app is given.
Construct(app, current_user) ==
    LET r == IF app # "None" THEN set_current_user(current_user, CURRENT_USER)
             ELSE [raised |-> FALSE, value |-> CURRENT_USER]
    IN  /\ call = NoCall
        /\ CURRENT_USER' = r.value
        /\ setup' = [op |-> "Authorize", app |-> app,
                     current_user |-> current_user, raised |-> r.raised]
        /\ UNCHANGED <<AUTHORIZE_CACHE, wrappers, declared, registered, call,
                       result>>

\* authorize.init_app(app, current_user): current_user defaults to None.
InitApp(current_user) ==
    LET r == set_current_user(current_user, CURRENT_USER)
    IN  /\ call = NoCall
        /\ CURRENT_USER' = r.value
        /\ setup' = [op |-> "init_app", app |-> "app",
                     current_user |-> current_user, raised |-> r.raised]
        /\ UNCHANGED <<AUTHORIZE_CACHE, wrappers, declared, registered, call,
                       result>>

\* Mutant: the new requirement's lists come first.
merge_reversed(original, self) ==
    [permission |-> self.permission \o original.permission,
     has_role |-> self.has_role \o original.has_role,
     in_group |-> self.in_group \o original.in_group,
     model |-> self.model \o original.model]

\* "updated": the Authorizer built from the cached one and the new one.
merge(original, self) ==
    Authorizer(PyList(original.permission \o self.permission),
               PyList(original.has_role \o self.has_role),
               PyList(original.in_group \o self.in_group),
               PyList(original.model \o self.model))

\* AUTHORIZE_CACHE after self decorates a function named name.
register(cache, name, self) ==
    IF cache[name] = NoEntry THEN [cache EXCEPT ![name] = self]
    ELSE [cache EXCEPT ![name] = merge(cache[name], self)]

Decorations == Len(declared["get_user"]) + Len(declared["edit_user"])
               + Len(declared["get_post"])

\* self(func): decoration. wrappers[func] lists the `auth` each inner() holds,
\* innermost first; declared and registered record what was declared on the
\* function and under the name.
Decorate(func, self) ==
    LET name == FuncName(func)
        cache == register(AUTHORIZE_CACHE, name, self)
        auth == cache[name]
    IN  /\ call = NoCall
        /\ Decorations < MaxDecorations
        /\ AUTHORIZE_CACHE' = cache
        /\ wrappers' = [wrappers EXCEPT ![func] = Append(@, auth)]
        /\ declared' = [declared EXCEPT ![func] = Append(@, self)]
        /\ registered' = [registered EXCEPT ![name] = Append(@, self)]
        /\ UNCHANGED <<CURRENT_USER, setup, call, result>>

\* inner(*args, **kwargs) of the k-th wrapper, calling the wrappers inside it
\* and then the function: "Unauthorized", "TypeError" or "invoked".
RECURSIVE inner(_, _, _, _, _)
inner(auths, k, check, accessor, accessorRet) ==
    IF k = 0 THEN "invoked"
    ELSE LET r == allowed(auths[k], check, PyNone, accessor, accessorRet) IN
         IF r = "TypeError" THEN "TypeError"
         ELSE IF r # "allow" THEN "Unauthorized"
         ELSE inner(auths, k - 1, check, accessor, accessorRet)

\* A call of the decorated function func.
CallDecorated(func, args, kwargs, accessorRet) ==
    /\ call = NoCall
    /\ wrappers[func] # <<>>
    /\ call' = [op |-> "call", func |-> func, args |-> args, kwargs |-> kwargs,
                kwUser |-> PyNone, accessorRet |-> accessorRet]
    /\ result' = inner(wrappers[func], Len(wrappers[func]), args \o kwargs,
                       CURRENT_USER, accessorRet)
    /\ UNCHANGED <<CURRENT_USER, AUTHORIZE_CACHE, wrappers, declared,
                   registered, setup>>

\* self(*cargs, user=kwUser) with objects to authorize.
Check(self, cargs, kwUser, accessorRet) ==
    /\ call = NoCall
    /\ call' = [op |-> "check", self |-> self, args |-> cargs,
                kwUser |-> kwUser, accessorRet |-> accessorRet]
    /\ result' = IF Len(cargs) = 0 THEN "AssertionError"
                 ELSE allowed(self, cargs, kwUser, CURRENT_USER, accessorRet)
    /\ UNCHANGED <<CURRENT_USER, AUTHORIZE_CACHE, wrappers, declared,
                   registered, setup>>

\* The caller has the outcome of the call: the next operation starts.
Return ==
    /\ call # NoCall
    /\ call' = NoCall
    /\ result' = "none"
    /\ UNCHANGED <<CURRENT_USER, AUTHORIZE_CACHE, wrappers, declared,
                   registered, setup>>

Init ==
    /\ GlobalsInit
    /\ CURRENT_USER = "None"
    /\ call = NoCall
    /\ result = "none"

\* One operation at a time (each is guarded by call = NoCall): setup, a
\* decoration, a call or a check.
Next ==
    \/ \E app \in {"None", "app"},
          current_user \in {"flask_login", "None", "noncallable"} :
            Construct(app, current_user)
    \/ \E current_user \in {"None", "custom", "noncallable"} :
            InitApp(current_user)
    \/ \E func \in Funcs, self \in DeclaredAuthorizers : Decorate(func, self)
    \/ \E func \in Funcs, a \in CallArguments, u \in {PyNone, Admin, Guest} :
            CallDecorated(func, a[1], a[2], u)
    \/ \E self \in DeclaredAuthorizers,
          cargs \in SeqsUpTo({Readable, Private}, 1),
          k \in {<<PyNone, PyNone>>, <<PyNone, Guest>>, <<Admin, PyNone>>} :
            Check(self, cargs, k[1], k[2])
    \/ Return

Spec == Init /\ [][Next]_vars

(***************************************************************************)
(* The decision as a function of its inputs: every call of allowed() over  *)
(* the users, requirements and argument lists below, with an accessor      *)
(* installed.                                                              *)
(***************************************************************************)
\* Credentials: open ones (no restrictions or allowances attribute) of either
\* name, a restricted admin (update on K1 forbidden, allowances None) and a
\* limited staff (restrictions None, only read allowed on K1).
DecideCreds ==
    {Credential(n, NoAttr, NoAttr) : n \in Names}
    \cup {Credential("admin", PyDict([k \in {"K1"} |-> {"update"}]), PyNone),
          Credential("staff", PyNone, PyDict([k \in {"K1"} |-> {"read"}]))}

\* A value without permissions, a K1 object granting nothing, and K1 and K2
\* objects granting read and update to anyone.
DecideTargets ==
    {PlainValue, Target("K1", EmptyDict, NoAttr, NoAttr)}
    \cup {Target(k, PyDict([t \in {"other"} |-> {"read", "update"}]),
                 NoAttr, NoAttr) : k \in {"K1", "K2"}}

DecideInit ==
    /\ GlobalsInit
    /\ CURRENT_USER = "custom"
    /\ \E r \in Requirements, a \in SeqsUpTo(DecideTargets, MaxArgs),
          u \in Users(DecideCreds, MaxCreds) \cup {PyNone} :
            \E k \in Resolutions(u) :
                call = [op |-> "allowed", self |-> r, args |-> a,
                        kwUser |-> k[1], accessorRet |-> k[2]]
    /\ result = "pending"

Allowed ==
    /\ call.op = "allowed"
    /\ result = "pending"
    /\ result' = allowed(call.self, call.args, call.kwUser, CURRENT_USER,
                         call.accessorRet)
    /\ UNCHANGED <<CURRENT_USER, AUTHORIZE_CACHE, wrappers, declared,
                   registered, setup, call>>

DecideNext == Allowed

SpecDecide == DecideInit /\ [][DecideNext]_vars

(***************************************************************************)
(* The decision over the permission tiers of the targets: users with few   *)
(* credentials, targets with every combination of tiers, owner and group.  *)
(***************************************************************************)
Editors == Credential("editors", NoAttr, NoAttr)
Outsiders == Credential("outsiders", NoAttr, NoAttr)

TierUsers ==
    {u \in [kind : {"obj"}, id : {"u1"},
            roles : {NoAttr, PyList(<<Credential("admin", NoAttr, NoAttr)>>)},
            groups : CredLists({Editors,
                        Credential("staff", PyDict([k \in {"K1"} |-> {"update"}]),
                                   PyNone)}, MaxCreds)] :
        Len(credentials(u)) <= MaxCreds}

\* Permission matrices: any subset of the tiers, other granting read, owner
\* and group granting read and update.
TierPermissions ==
    {PyDict([t \in D |-> IF t = "other" THEN {"read"} ELSE {"read", "update"}]) :
        D \in SUBSET {"owner", "group", "other"}}

\* Targets: every permission matrix, without owner and group, owned by the
\* user in a foreign group, or owned by another user in the group editors.
TierTargets ==
    {Target("K1", p, og[1], og[2]) : p \in TierPermissions,
        og \in {<<NoAttr, NoAttr>>,
                <<UserRef("u1"), GroupRef(Outsiders)>>,
                <<UserRef("u2"), GroupRef(Editors)>>}}

TierRequirements ==
    [permission : {<<"read">>, <<"update">>, <<"read", "update">>},
     has_role : {<<>>, <<"admin">>}, in_group : {<<>>}, model : {<<>>}]

TiersInit ==
    /\ GlobalsInit
    /\ CURRENT_USER = "custom"
    /\ \E r \in TierRequirements, a \in SeqsUpTo(TierTargets, MaxArgs),
          u \in TierUsers :
            call = [op |-> "allowed", self |-> r, args |-> a, kwUser |-> u,
                    accessorRet |-> PyNone]
    /\ result = "pending"

SpecTiers == TiersInit /\ [][DecideNext]_vars

(***************************************************************************)
(* The allowance check as a function of its inputs: users whose            *)
(* credentials carry every kind of allowances, every operation, both keys. *)
(***************************************************************************)
AllowanceMaps ==
    UNION {[D -> {{}, {"read"}, {"update", "create"}}] :
            D \in SUBSET {"K1", "K2"}}

AllowCreds ==
    {Credential("staff", NoAttr, a) :
        a \in {NoAttr, PyNone} \cup {PyDict(f) : f \in AllowanceMaps}}

AllowInit ==
    /\ GlobalsInit
    /\ CURRENT_USER = "custom"
    /\ call \in [op : {"user_is_allowed"}, user : Users(AllowCreds, MaxCreds),
                 operation : SUBSET {"read", "update", "create"},
                 obj : {Target(k, EmptyDict, NoAttr, NoAttr) : k \in {"K1", "K2"}}]
    /\ result = "pending"

UserIsAllowed ==
    /\ call.op = "user_is_allowed"
    /\ result = "pending"
    /\ result' = IF user_is_allowed(call.user, call.operation, call.obj)
                 THEN "True" ELSE "False"
    /\ UNCHANGED <<CURRENT_USER, AUTHORIZE_CACHE, wrappers, declared,
                   registered, setup, call>>

AllowNext == UserIsAllowed

SpecAllow == AllowInit /\ [][AllowNext]_vars

(***************************************************************************)
(* Properties of the decision.                                             *)
(***************************************************************************)
Decided == call.op = "allowed" /\ result # "pending"

\* The user the decision is made for, once resolved.
TheUser == resolve_user(call.kwUser, CURRENT_USER, call.accessorRet)
Resolved == Decided /\ TheUser.kind = "obj"
Operation == Range(call.self.permission)

ExposesPermissions(arg) == arg.permissions.kind # "noattr"

RemoveAt(s, i) == [j \in 1..(Len(s) - 1) |-> IF j < i THEN s[j] ELSE s[j + 1]]

NoBypass ==
    /\ ~user_has_role(TheUser, call.self.has_role)
    /\ ~user_in_group(TheUser, call.self.in_group)

\* The argument is restricted or disallowed for the operation.
Blocked(arg) ==
    \/ user_is_restricted(TheUser, Operation, arg)
    \/ ~user_is_allowed(TheUser, Operation, arg)

\* The argument grants the operation on the other, owner or group tier.
SatisfiesTier(arg) ==
    /\ arg.permissions.kind = "map"
    /\ \/ Operation \subseteq DictGet(arg.permissions, "other", {})
       \/ /\ arg.owner.kind = "obj"
          /\ arg.owner.id = TheUser.id
          /\ Operation \subseteq DictGet(arg.permissions, "owner", {})
       \/ /\ arg.group.kind # "noattr"
          /\ TheUser.groups.kind = "list"
          /\ \E g \in Range(TheUser.groups.items) : g = arg.group.obj
          /\ Operation \subseteq DictGet(arg.permissions, "group", {})

\* C1: with no user keyword and CURRENT_USER() returning None, allowed()
\* returns False (deny), without raising, whatever the requirement and the
\* arguments are.
C1_AnonymousDeny ==
    (Decided /\ call.kwUser = PyNone /\ call.accessorRet = PyNone)
        => result = "deny"

C1_Witness ==
    /\ Decided /\ call.kwUser = PyNone /\ call.accessorRet = PyNone
    /\ call.self.permission = <<"read">>
    /\ call.self.has_role # <<>>
    /\ Len(call.args) = 1
    /\ ExposesPermissions(call.args[1])
    /\ "read" \in DictGet(call.args[1].permissions, "other", {})
    /\ result = "deny"

\* C2 as claimed: a resolved user holding any credential, role or group,
\* whose name is in the requirement's roles is allowed.
C2_AnyCredentialBypass ==
    (/\ Resolved
     /\ \E c \in Range(credentials(TheUser)) :
            c.name \in Range(call.self.has_role))
        => result = "allow"

\* C2 amended: a resolved user one of whose roles (an element of user.roles)
\* has its name in the requirement's roles is allowed, whatever the
\* permissions, the credentials' restrictions and allowances and the
\* arguments are.
C2_RoleBypass ==
    (/\ Resolved
     /\ TheUser.roles.kind = "list"
     /\ \E c \in Range(TheUser.roles.items) :
            c.name \in Range(call.self.has_role))
        => result = "allow"

C2_Witness ==
    /\ Resolved
    /\ TheUser.roles.kind = "list"
    /\ Len(TheUser.roles.items) = 2
    /\ TheUser.roles.items[2].name \in Range(call.self.has_role)
    /\ TheUser.roles.items[2].restrictions.kind = "map"
    /\ TheUser.roles.items[1].name \notin Range(call.self.has_role)
    /\ call.self.permission = <<>>
    /\ call.args = <<>>
    /\ result = "allow"

\* C3 as claimed: without bypass and with permissions required, a blocked
\* (restricted or disallowed) argument at any position gives deny.
C3_BlockedAnywhereDenies ==
    (/\ Resolved /\ NoBypass /\ Operation # {}
     /\ \E i \in 1..Len(call.args) :
            ExposesPermissions(call.args[i]) /\ Blocked(call.args[i]))
        => result = "deny"

\* C3 amended: without bypass and with permissions required, a blocked
\* argument gives deny when no argument before it in the list satisfies a
\* tier check, whatever the arguments after it would allow.
C3_BlockedFirstDenies ==
    (/\ Resolved /\ NoBypass /\ Operation # {}
     /\ \E i \in 1..Len(call.args) :
            /\ ExposesPermissions(call.args[i]) /\ Blocked(call.args[i])
            /\ \A j \in 1..(i - 1) : ~SatisfiesTier(call.args[j]))
        => result = "deny"

C3_Witness ==
    /\ Resolved /\ NoBypass /\ Operation = {"update"}
    /\ Len(call.args) = 2
    /\ ExposesPermissions(call.args[1])
    /\ user_is_restricted(TheUser, Operation, call.args[1])
    /\ ExposesPermissions(call.args[2])
    /\ ~Blocked(call.args[2])
    /\ SatisfiesTier(call.args[2])
    /\ result = "deny"

\* C9: removing an argument without a permissions attribute from any position
\* of the list (equally: inserting it there) leaves the decision unchanged.
C9_PlainArgsTransparent ==
    Decided =>
        \A i \in 1..Len(call.args) :
            ~ExposesPermissions(call.args[i]) =>
                result = allowed(call.self, RemoveAt(call.args, i),
                                 call.kwUser, CURRENT_USER, call.accessorRet)

C9_Witness ==
    /\ Resolved /\ NoBypass
    /\ Len(call.args) = 2
    /\ ~ExposesPermissions(call.args[1])
    /\ ExposesPermissions(call.args[2])
    /\ result = "allow"

NoneBlocked ==
    \A i \in 1..Len(call.args) :
        ExposesPermissions(call.args[i]) => ~Blocked(call.args[i])

SomeTierSatisfied ==
    \E i \in 1..Len(call.args) :
        ExposesPermissions(call.args[i]) /\ SatisfiesTier(call.args[i])

\* C4 as claimed: with permissions required and no argument blocked, the
\* decision is allow exactly when some argument satisfies a tier.
C4_AllowIffSomeTier ==
    (Resolved /\ Operation # {} /\ NoneBlocked)
        => (result = "allow" <=> SomeTierSatisfied)

\* C4 amended: with permissions required, no role or group bypass and no
\* argument blocked, the decision is allow exactly when some argument
\* exposing permissions satisfies the other, owner or group tier, however
\* many arguments failing all tiers come before it.
C4_TierFallthrough ==
    (Resolved /\ NoBypass /\ Operation # {} /\ NoneBlocked)
        => (result = "allow" <=> SomeTierSatisfied)

\* The first argument has all three tiers and fails each of them; the second
\* grants the operation on the owner tier only.
C4_Witness ==
    /\ Resolved /\ NoBypass /\ Operation = {"read", "update"} /\ NoneBlocked
    /\ Len(call.args) = 2
    /\ ~SatisfiesTier(call.args[1])
    /\ call.args[1].owner = UserRef("u2")
    /\ DOMAIN call.args[1].permissions.map = {"owner", "group", "other"}
    /\ SatisfiesTier(call.args[2])
    /\ ~(Operation \subseteq DictGet(call.args[2].permissions, "other", {}))
    /\ call.args[2].owner = UserRef("u1")
    /\ result = "allow"

(***************************************************************************)
(* Properties of the allowance check.                                      *)
(***************************************************************************)
AllowChecked == call.op = "user_is_allowed" /\ result # "pending"

\* The credentials of a user: its roles and its groups.
CredsOf(u) ==
    (IF u.roles.kind = "list" THEN Range(u.roles.items) ELSE {})
    \cup (IF u.groups.kind = "list" THEN Range(u.groups.items) ELSE {})

\* The actions a credential with an allowances map allows for a key.
AllowanceSet(c, key) ==
    IF key \in DOMAIN c.allowances.map THEN c.allowances.map[key]
    ELSE {"read", "update", "delete"}

\* C10: the allowance check passes exactly when the user has no credential,
\* or some credential has no allowances attribute or None for it, or the
\* operation is within the union of the credentials' allowance sets for the
\* target's key, each defaulting to {read, update, delete}.
C10_AllowanceCheck ==
    AllowChecked =>
        (result = "True" <=>
            \/ CredsOf(call.user) = {}
            \/ \E c \in CredsOf(call.user) : c.allowances.kind \in {"noattr", "none"}
            \/ call.operation \subseteq
                UNION {AllowanceSet(c, call.obj.key) : c \in CredsOf(call.user)})

\* The second credential, a group, has allowances None; the first, a role,
\* allows only read for the key, and the operation is create.
C10_Witness ==
    /\ AllowChecked
    /\ call.user.roles.kind = "list" /\ Len(call.user.roles.items) = 1
    /\ call.user.groups.kind = "list" /\ Len(call.user.groups.items) = 1
    /\ call.user.roles.items[1].allowances = PyDict([k \in {"K1"} |-> {"read"}])
    /\ call.user.groups.items[1].allowances = PyNone
    /\ call.obj.key = "K1"
    /\ call.operation = {"create"}
    /\ result = "True"

(***************************************************************************)
(* Properties of the program.                                              *)
(***************************************************************************)
\* The lists of one field of the requirements, joined in order.
RECURSIVE Flatten(_, _)
Flatten(reqs, field) ==
    IF reqs = <<>> THEN <<>>
    ELSE reqs[1][field] \o Flatten(Tail(reqs), field)

\* The composite of the requirements, in the order they were declared.
Composite(reqs) ==
    [permission |-> Flatten(reqs, "permission"),
     has_role |-> Flatten(reqs, "has_role"),
     in_group |-> Flatten(reqs, "in_group"),
     model |-> Flatten(reqs, "model")]

OwnKey(func) ==
    \A g \in Funcs \ {func} : FuncName(g) = FuncName(func) => declared[g] = <<>>

\* The decision for the call against the composite of what was declared on
\* the called function.
CompositeDecision ==
    allowed(Composite(declared[call.func]), call.args \o call.kwargs, PyNone,
            CURRENT_USER, call.accessorRet)

\* C6: a call of a decorated function reaches the function exactly when the
\* decision against the composite of the requirements declared on it is
\* allow, and raises Unauthorized when that decision is deny. Stated for the
\* functions that share their name with no other decorated function.
C6_CallDecidedByComposite ==
    (call.op = "call" /\ OwnKey(call.func)) =>
        /\ result = "invoked" <=> CompositeDecision = "allow"
        /\ CompositeDecision = "deny" => result = "Unauthorized"

\* C7: the requirement each wrapper of a function checks holds only
\* permissions, roles and groups declared on that function.
C7_CompositePerCallSite ==
    \A f \in Funcs : \A k \in 1..Len(wrappers[f]) :
        \A field \in {"permission", "has_role", "in_group"} :
            Range(wrappers[f][k][field]) \subseteq
                Range(Flatten(declared[f], field))

\* C8: a setup given no accessor, or one that is not callable, raises; and
\* after a setup that did not raise, no check or call without an explicit
\* user runs with CURRENT_USER still None.
C8_SetupRejectsMissingAccessor ==
    /\ (setup.op # "none" /\ setup.current_user \in {"None", "noncallable"})
            => setup.raised
    /\ (/\ setup.op # "none" /\ ~setup.raised
        /\ call.op \in {"call", "check"} /\ call.kwUser = PyNone
        /\ result # "AssertionError")
            => CURRENT_USER # "None"

====
